---- MODULE Spec2Model ----
(***************************************************************************)
(* A model of stingray's base classes (stingray/base.py) and of the GTI    *)
(* chunking helpers of stingray/utils.py.                                  *)
(*                                                                         *)
(* Objects are Python objects: a function from attribute names to cells.   *)
(* A cell is None, an int, a str, or a reference into the heap of numpy    *)
(* arrays, so that two attributes holding the same ndarray are told apart  *)
(* from two attributes holding equal ndarrays.                             *)
(***************************************************************************)
EXTENDS Integers, Sequences, FiniteSets, TLC

VARIABLES
    objs,   \* the time series the caller holds: objs[1] is the one the last
            \* call was made on, the others are what that call returned
    heap,   \* the ndarrays those objects reference
    last,   \* the last call: its name, arguments, exception and results, and
            \* whether every call so far returned (ok)
    nops    \* number of calls made after construction

vars == <<objs, heap, last, nops>>

\* ------------------------------------------------------------------ bounds

MaxLen == 2
MaxOps == 1
MaxT == 5
MaxChunk == 3
MaxBins == 4
MaxSamples == 4

\* ------------------------------------------------------- program constants

SecPerDay == 86400
MjdThreshold == 10000

\* ------------------------------------------------------------------ values

None == [t |-> "none"]
IntV(i) == [t |-> "int", i |-> i]
StrV(s) == [t |-> "str", s |-> s]
Ref(r) == [t |-> "ref", r |-> r]
\* a 1-d ndarray, and a 2-d ndarray of `cols` columns given by its rows
Arr1(v) == [t |-> "arr1", v |-> v]
Arr2(rows, cols) == [t |-> "arr2", rows |-> rows, cols |-> cols]

IsArr(a) == a.t \in {"arr1", "arr2"}
\* np.shape(a), a.size and len(a) of an ndarray
Shape(a) == IF a.t = "arr1" THEN <<Len(a.v)>> ELSE <<Len(a.rows), a.cols>>
Size(a) == IF a.t = "arr1" THEN Len(a.v) ELSE Len(a.rows) * a.cols
ALen(a) == IF a.t = "arr1" THEN Len(a.v) ELSE Len(a.rows)

Range(s) == {s[k] : k \in 1..Len(s)}

\* dir(self): the attribute names this model knows, in sorted order
AllNames ==
    <<"PI", "_mask", "bogus", "counts", "dt", "ephem", "gti", "main_array_attr",
      "mission", "mjdref", "ncounts", "notes", "pi", "time", "timeref",
      "timesys", "weights">>

\* the value an attribute cell stands for
Val(h, c) == IF c.t = "ref" THEN h[c.r] ELSE c
\* the object as its caller sees it: every attribute with its value
View(o, h) == [n \in DOMAIN o |-> Val(h, o[n])]

\* --------------------------------------------------------- interpret_times

\* A time input: kind is the Python type, v the values (MJDs for "Time",
\* multiples of `unit` seconds for "TimeDelta" and "Quantity"), scalar
\* tells a 0-d value from a 1-d one.
TimeIn(kind, v, scalar, unit) ==
    [kind |-> kind, v |-> v, scalar |-> scalar, unit |-> unit]

AllAbove(v, x) == \A k \in 1..Len(v) : v[k] > x

\* the astropy Time branch with the epoch never derived from the data
interpret_Time_given_epoch(time, mjdref) ==
    [err |-> "none",
     out |-> [k \in 1..Len(time.v) |-> (time.v[k] - mjdref) * SecPerDay],
     scalar |-> time.scalar, mjdref |-> mjdref]

\* the astropy Time branch of interpret_times: with mjdref 0 and every MJD
\* above 10000 the epoch is the first MJD (mjds[0] of no MJD at all raises)
interpret_Time(time, mjdref) ==
    IF mjdref = 0 /\ AllAbove(time.v, MjdThreshold)
    THEN IF Len(time.v) = 0
         THEN [err |-> "IndexError", out |-> <<>>, scalar |-> FALSE, mjdref |-> mjdref]
         ELSE [err |-> "none",
               out |-> [k \in 1..Len(time.v) |-> (time.v[k] - time.v[1]) * SecPerDay],
               scalar |-> time.scalar, mjdref |-> time.v[1]]
    ELSE [err |-> "none",
          out |-> [k \in 1..Len(time.v) |-> (time.v[k] - mjdref) * SecPerDay],
          scalar |-> time.scalar, mjdref |-> mjdref]

\* time.to("s").value of a TimeDelta or a Quantity
to_seconds(time) == [k \in 1..Len(time.v) |-> time.v[k] * time.unit]

\* interpret_times(time, mjdref): [err, out, scalar, mjdref]
interpret_times(time, mjdref) ==
    IF time.kind = "TimeDelta"
    THEN [err |-> "none", out |-> to_seconds(time), scalar |-> time.scalar,
          mjdref |-> mjdref]
    ELSE IF time.kind = "Time" THEN interpret_Time(time, mjdref)
    ELSE IF time.kind = "Quantity"
    THEN [err |-> "none", out |-> to_seconds(time), scalar |-> time.scalar,
          mjdref |-> mjdref]
    ELSE IF time.kind \in {"tuple", "list", "ndarray"}
    THEN [err |-> "none", out |-> time.v, scalar |-> time.scalar, mjdref |-> mjdref]
    ELSE IF time.kind = "number"
    THEN [err |-> "none", out |-> time.v, scalar |-> time.scalar, mjdref |-> mjdref]
    ELSE [err |-> "ValueError", out |-> <<>>, scalar |-> FALSE, mjdref |-> mjdref]

\* ------------------------------------------------------------ the heap

\* a program state while a call runs: the objects, the heap, the exception
St(os, h) == [objs |-> os, heap |-> h]

\* setattr(objs[i], n, c)
SetAttr(st, i, n, c) ==
    [st EXCEPT !.objs[i] = [m \in (DOMAIN st.objs[i]) \cup {n} |->
                               IF m = n THEN c ELSE st.objs[i][m]]]

\* setattr(objs[i], n, a) for a new ndarray a
SetNewArr(st, i, n, a) ==
    SetAttr([st EXCEPT !.heap = Append(st.heap, a)], i, n, Ref(Len(st.heap) + 1))

\* The references the objects hold, by object and by attribute name, each
\* once: arrays no object references are garbage, and Collect drops them.
RECURSIVE RefList(_, _, _)
RefList(os, j, acc) ==
    IF j > Len(os) * Len(AllNames) THEN acc
    ELSE LET i == ((j - 1) \div Len(AllNames)) + 1
             n == AllNames[((j - 1) % Len(AllNames)) + 1]
         IN  IF n \in DOMAIN os[i] /\ os[i][n].t = "ref" /\ os[i][n].r \notin Range(acc)
             THEN RefList(os, j + 1, Append(acc, os[i][n].r))
             ELSE RefList(os, j + 1, acc)

Collect(st) ==
    LET live == RefList(st.objs, 1, <<>>)
        new(r) == CHOOSE k \in 1..Len(live) : live[k] = r
    IN  St([i \in 1..Len(st.objs) |->
               [n \in DOMAIN st.objs[i] |->
                   IF st.objs[i][n].t = "ref" THEN Ref(new(st.objs[i][n].r))
                   ELSE st.objs[i][n]]],
           [k \in 1..Len(live) |-> st.heap[live[k]]])

\* ---------------------------------------------------------- construction

UserAttrs == {"counts", "weights"}

\* StingrayTimeseries() with every argument left out
DefaultObj ==
    [n \in {"_mask", "dt", "ephem", "gti", "main_array_attr", "mjdref", "notes",
            "time", "timeref", "timesys"} |->
        CASE n = "dt" -> IntV(0)
          [] n = "mjdref" -> IntV(0)
          [] n = "notes" -> StrV("")
          [] n = "main_array_attr" -> StrV("time")
          [] OTHER -> None]

\* the loop over array_attrs of __init__, from the k-th name of `names` on:
\* [st, err]
RECURSIVE InitArrayAttrs(_, _, _, _)
InitArrayAttrs(st, aa, names, k) ==
    IF k > Len(names) THEN [st |-> st, err |-> "none"]
    ELSE IF names[k] \notin DOMAIN aa THEN InitArrayAttrs(st, aa, names, k + 1)
    ELSE IF st.objs[1]["time"].t # "ref" THEN [st |-> st, err |-> "AttributeError"]
    ELSE IF Size(Val(st.heap, st.objs[1]["time"])) # Size(aa[names[k]])
    THEN [st |-> st, err |-> "ValueError"]
    ELSE InitArrayAttrs(SetNewArr(st, 1, names[k], aa[names[k]]), aa, names, k + 1)

\* StingrayTimeseries.__init__(time, array_attrs, mjdref, gti, mission=...):
\* [st, err]
NewTimeseries(time, aa, mjdref, gti, mission) ==
    LET s0 == St(<<DefaultObj>>, <<>>)
        s1 == SetAttr(s0, 1, "mjdref", IntV(mjdref))
        s2 == IF gti.t = "none" THEN s1 ELSE SetNewArr(s1, 1, "gti", gti)
        it == IF time.kind = "none" THEN [err |-> "none"] ELSE interpret_times(time, mjdref)
        s3 == IF time.kind = "none" \/ it.err # "none" THEN s2
              ELSE SetAttr(SetNewArr(s2, 1, "time", Arr1(it.out)),
                           1, "ncounts", IntV(Len(it.out)))
        s4 == SetAttr(s3, 1, "mission", StrV(mission))
    IN  IF it.err # "none" THEN [st |-> s2, err |-> it.err]
        ELSE InitArrayAttrs(s4, aa, AllNames, 1)

\* ---------------------------------------------------------------- copies

\* setattr(objs[j], n, copy.deepcopy(c)): an ndarray is copied into a new one
deepcopy(st, j, n, c) ==
    IF c.t = "ref" THEN SetNewArr(st, j, n, st.heap[c.r]) ELSE SetAttr(st, j, n, c)

\* ------------------------------------------------------------- reflection

\* StingrayObject.array_attrs: the attributes of the shape of `time`
array_attrs(o, h) ==
    IF o["time"].t = "none" THEN <<>>
    ELSE LET SameShape(n) ==
                 /\ n \in DOMAIN o
                 /\ o[n].t = "ref"
                 /\ Shape(h[o[n].r]) = Shape(Val(h, o["time"]))
         IN  SelectSeq(AllNames, SameShape)

\* StingrayObject.meta_attrs: the other public attributes
meta_attrs(o, h) ==
    LET arrs == Range(array_attrs(o, h))
        IsMeta(n) == n \in DOMAIN o /\ n \notin arrs /\ n # "_mask"
    IN  SelectSeq(AllNames, IsMeta)

\* -------------------------------------------------------------- apply_mask

\* s[mask] for a boolean mask of the length of s
RECURSIVE Pick(_, _)
Pick(s, mask) ==
    IF Len(s) = 0 THEN <<>>
    ELSE (IF mask[1] THEN <<s[1]>> ELSE <<>>) \o Pick(Tail(s), Tail(mask))

\* a[~mask]: the positions where mask is False
MaskedInverted(a, mask) ==
    LET inv == [k \in 1..Len(mask) |-> ~mask[k]]
    IN  IF a.t = "arr1" THEN Arr1(Pick(a.v, inv)) ELSE Arr2(Pick(a.rows, inv), a.cols)

\* a[mask]: boolean indexing along the first axis
Masked(a, mask) ==
    IF a.t = "arr1" THEN Arr1(Pick(a.v, mask)) ELSE Arr2(Pick(a.rows, mask), a.cols)

\* a filtered_attrs argument: None, or a list of names
NoFilter == [given |-> FALSE]
Filter(names) == [given |-> TRUE, names |-> names]

\* the unfiltered attributes left as they are
NullAttrsSkipped(st, i, all, filtered, k) == st

\* "Eliminate all unfiltered attributes" of objs[i], from all[k] on
RECURSIVE NullAttrs(_, _, _, _, _)
NullAttrs(st, i, all, filtered, k) ==
    IF k > Len(all) THEN st
    ELSE NullAttrs(IF all[k] \notin Range(filtered)
                   THEN SetAttr(st, i, all[k], None) ELSE st,
                   i, all, filtered, k + 1)

\* the deep copy of the meta attributes of objs[i] into objs[j]
RECURSIVE CopyMeta(_, _, _, _, _)
CopyMeta(st, i, j, metas, k) ==
    IF k > Len(metas) THEN st
    ELSE CopyMeta(deepcopy(st, j, metas[k], st.objs[i][metas[k]]), i, j, metas, k + 1)

\* the last loop of apply_mask: objs[j].attr = objs[i].attr[mask] for every
\* attr of filtered from the k-th on, up to the first that raises: [st, err]
RECURSIVE MaskAttrs(_, _, _, _, _, _)
MaskAttrs(st, i, j, filtered, mask, k) ==
    IF k > Len(filtered) THEN [st |-> st, err |-> "none"]
    ELSE IF filtered[k] \notin DOMAIN st.objs[i]
    THEN [st |-> st, err |-> "AttributeError"]
    ELSE IF st.objs[i][filtered[k]].t # "ref"
    THEN [st |-> st, err |-> "TypeError"]
    ELSE IF ALen(Val(st.heap, st.objs[i][filtered[k]])) # Len(mask)
    THEN [st |-> st, err |-> "IndexError"]
    ELSE MaskAttrs(SetNewArr(st, j, filtered[k],
                             Masked(Val(st.heap, st.objs[i][filtered[k]]), mask)),
                   i, j, filtered, mask, k + 1)

\* objs[i].apply_mask(mask, inplace, filtered_attrs): [st, err, new], where
\* new is the index of the object returned (i itself when inplace)
apply_mask(st, i, mask, inplace, fa) ==
    LET self == st.objs[i]
        all_attrs == array_attrs(self, st.heap)
        given == IF fa.given THEN fa.names ELSE all_attrs
        filtered == IF "time" \notin Range(given) THEN Append(given, "time") ELSE given
        j == IF inplace THEN i ELSE Len(st.objs) + 1
        s1 == IF inplace THEN NullAttrs(st, i, all_attrs, filtered, 1)
              ELSE CopyMeta([st EXCEPT !.objs = Append(st.objs, DefaultObj)],
                            i, j, meta_attrs(self, st.heap), 1)
        r == MaskAttrs(s1, i, j, filtered, mask, 1)
    IN  [st |-> r.st, err |-> r.err, new |-> j]

\* ------------------------------------------------------------------- shift

\* a + x, element by element
AddArr(a, x) ==
    IF a.t = "arr1" THEN Arr1([k \in 1..Len(a.v) |-> a.v[k] + x])
    ELSE Arr2([i \in 1..Len(a.rows) |->
                  [j \in 1..Len(a.rows[i]) |-> a.rows[i][j] + x]], a.cols)

\* copy.copy(objs[i]) appended to objs: the new object holds the same arrays
ShallowCopyObj(st, i) == [st EXCEPT !.objs = Append(st.objs, st.objs[i])]

\* copy.deepcopy(objs[i]) appended to objs: every array is copied
RECURSIVE DeepCopyAttrs(_, _, _, _)
DeepCopyAttrs(st, i, j, k) ==
    IF k > Len(AllNames) THEN st
    ELSE DeepCopyAttrs(IF AllNames[k] \in DOMAIN st.objs[i]
                       THEN deepcopy(st, j, AllNames[k], st.objs[i][AllNames[k]])
                       ELSE st,
                       i, j, k + 1)

DeepCopyObj(st, i) ==
    DeepCopyAttrs([st EXCEPT !.objs = Append(st.objs, << >>)], i, Len(st.objs) + 1, 1)

\* objs[i].shift(time_shift): [st, err, new]
shift(st, i, time_shift) ==
    LET j == Len(st.objs) + 1
        s1 == DeepCopyObj(st, i)
        time == s1.objs[j]["time"]
        s2 == IF time.t = "ref"
              THEN SetNewArr(s1, j, "time", AddArr(Val(s1.heap, time), time_shift))
              ELSE s1
        gti == s2.objs[j]["gti"]
    IN  IF time.t # "ref" THEN [st |-> s1, err |-> "TypeError", new |-> j]
        ELSE IF "gti" \notin DOMAIN s2.objs[j] THEN [st |-> s2, err |-> "none", new |-> j]
        ELSE IF gti.t # "ref" THEN [st |-> s2, err |-> "TypeError", new |-> j]
        ELSE [st |-> SetNewArr(s2, j, "gti", AddArr(Val(s2.heap, gti), time_shift)),
              err |-> "none", new |-> j]

\* objs[i].change_mjdref(new_mjdref): [st, err, new]
change_mjdref(st, i, new_mjdref) ==
    LET time_shift == (st.objs[i]["mjdref"].i - new_mjdref) * SecPerDay
        r == shift(st, i, time_shift)
    IN  IF r.err # "none" THEN r
        ELSE [r EXCEPT !.st = SetAttr(r.st, r.new, "mjdref", IntV(new_mjdref))]

\* ------------------------------------------------------------ split_by_gti

\* t lies in the good time interval g = [start, stop)
InGti(t, g) == g[1] <= t /\ t < g[2]

\* gti.create_gti_mask(time, gtis): the samples inside one of the intervals
create_gti_mask(time, gtis) ==
    [k \in 1..Len(time) |-> \E r \in 1..Len(gtis) : InGti(time[k], gtis[r])]

\* gti.gti_border_bins(gtis, time): for every interval, the index of its
\* first sample and the index after its last one (time is sorted)
gti_border_bins(gtis, time) ==
    [r \in 1..Len(gtis) |->
        [start |-> Cardinality({k \in 1..Len(time) : time[k] < gtis[r][1]}),
         stop |-> Cardinality({k \in 1..Len(time) : time[k] < gtis[r][2]})]]

\* the loop of split_by_gti over the intervals, from the r-th on:
\* [st, err, ret], ret the indices of the time series made so far
RECURSIVE SplitLoop(_, _, _, _, _, _)
SplitLoop(st, i, gti, min_points, r, ret) ==
    IF r > Len(gti) THEN [st |-> st, err |-> "none", ret |-> ret]
    ELSE LET time == Val(st.heap, st.objs[i]["time"]).v
             bins == gti_border_bins(gti, time)[r]
         IN  IF bins.stop - bins.start < min_points
             THEN SplitLoop(st, i, gti, min_points, r + 1, ret)
             ELSE LET new_gti == Arr2(<<gti[r]>>, 2)
                      mask == create_gti_mask(time, new_gti.rows)
                      m == apply_mask(st, i, mask, FALSE, NoFilter)
                  IN  IF m.err # "none" THEN [st |-> m.st, err |-> m.err, ret |-> ret]
                      ELSE SplitLoop(SetNewArr(m.st, m.new, "gti", new_gti),
                                     i, gti, min_points, r + 1, Append(ret, m.new))

\* split_by_gti skipping the intervals of exactly min_points samples too
split_by_gti_strict(st, i, gtiarg, min_points) ==
    LET gti == IF gtiarg.t = "none" THEN Val(st.heap, st.objs[i]["gti"]) ELSE gtiarg
    IN  IF gti.t = "none" \/ st.objs[i]["time"].t # "ref"
        THEN [st |-> st, err |-> "TypeError", ret |-> <<>>]
        ELSE SplitLoop(st, i, gti.rows, min_points + 1, 1, <<>>)

\* objs[i].split_by_gti(gti, min_points): [st, err, ret]
split_by_gti(st, i, gtiarg, min_points) ==
    LET gti == IF gtiarg.t = "none" THEN Val(st.heap, st.objs[i]["gti"]) ELSE gtiarg
    IN  IF gti.t = "none" \/ st.objs[i]["time"].t # "ref"
        THEN [st |-> st, err |-> "TypeError", ret |-> <<>>]
        ELSE SplitLoop(st, i, gti.rows, min_points, 1, <<>>)

\* ------------------------------------------- time_intervals_from_gtis

\* np.arange(start, stop, step) for a positive step: start, start + step, ...
\* as long as the value stays below stop
arange(start, stop, step) ==
    LET n == IF stop > start THEN ((stop - start - 1) \div step) + 1 ELSE 0
    IN  [k \in 1..n |-> start + (k - 1) * step]

\* the start times of one interval with the end of the interval as the limit
newtimes_to_end(g, chunk_length) == arange(g[1], g[2], chunk_length)

\* the start times of one interval: np.arange(g[0], g[1] - chunk_length, ...)
newtimes(g, chunk_length) == arange(g[1], g[2] - chunk_length, chunk_length)

\* the loop of time_intervals_from_gtis over the intervals, from the r-th on
RECURSIVE spectrum_start_times(_, _, _)
spectrum_start_times(gtis, chunk_length, r) ==
    IF r > Len(gtis) THEN <<>>
    ELSE (IF gtis[r][2] - gtis[r][1] < chunk_length THEN <<>>
          ELSE newtimes(gtis[r], chunk_length))
         \o spectrum_start_times(gtis, chunk_length, r + 1)

\* time_intervals_from_gtis(gtis, chunk_length): [err, start, stop]
time_intervals_from_gtis(gtis, chunk_length) ==
    LET start == spectrum_start_times(gtis, chunk_length, 1)
    IN  IF Len(start) = 0
        THEN [err |-> "AssertionError", start |-> <<>>, stop |-> <<>>]
        ELSE [err |-> "none", start |-> start,
              stop |-> [k \in 1..Len(start) |-> start[k] + chunk_length]]

\* -------------------------------------------- bin_intervals_from_gtis

Abs(x) == IF x < 0 THEN 0 - x ELSE x

\* np.argmin(s): the index, from 0, of the first smallest element
argmin(s) ==
    (CHOOSE k \in 1..Len(s) :
        /\ \A j \in 1..Len(s) : s[k] <= s[j]
        /\ \A j \in 1..(k - 1) : s[j] > s[k]) - 1

\* time[b] for an index b counted from 0
At(time, b) == time[b + 1]

\* the start bin of an interval: the bin whose left edge is nearest to g[0],
\* the next one if its centre is before g[0]
startbin_of(g, time) ==
    LET bintime == time[2] - time[1]
        half == bintime \div 2
        startbin == argmin([k \in 1..Len(time) |-> Abs(time[k] - half - g[1])])
    IN  IF At(time, startbin) < g[1] THEN startbin + 1 ELSE startbin

\* the stop bin of an interval: the bin whose right edge is nearest to g[1],
\* the next one if its centre is before g[1] + bintime / 2
stopbin_of(g, time) ==
    LET bintime == time[2] - time[1]
        half == bintime \div 2
        stopbin == argmin([k \in 1..Len(time) |-> Abs(time[k] + half - g[2])])
    IN  IF At(time, stopbin) < g[2] + half THEN stopbin + 1 ELSE stopbin

\* time[good] is empty: no bin has its left edge after g[0] and its right
\* edge before g[1]
no_good_bins(g, time) ==
    LET half == (time[2] - time[1]) \div 2
    IN  ~\E k \in 1..Len(time) : time[k] - half > g[1] /\ time[k] + half < g[2]

\* the loop of bin_intervals_from_gtis over the intervals, from the r-th on:
\* [err, bins, from], from[m] the interval that gave bins[m]
RECURSIVE spectrum_start_bins(_, _, _, _, _)
spectrum_start_bins(gtis, chunk_length, time, r, acc) ==
    IF r > Len(gtis) THEN acc
    ELSE LET g == gtis[r]
             nbin == chunk_length \div (time[2] - time[1])
         IN  IF g[2] - g[1] < chunk_length \/ no_good_bins(g, time)
             THEN spectrum_start_bins(gtis, chunk_length, time, r + 1, acc)
             ELSE IF nbin = 0
             THEN [acc EXCEPT !.err = "ZeroDivisionError"]
             ELSE LET newbins == arange(startbin_of(g, time),
                                        stopbin_of(g, time) - nbin + 1, nbin)
                  IN  spectrum_start_bins(gtis, chunk_length, time, r + 1,
                          [acc EXCEPT !.bins = @ \o newbins,
                                      !.from = @ \o [k \in 1..Len(newbins) |-> r]])

\* bin_intervals_from_gtis(gtis, chunk_length, time): [err, start, stop, from]
bin_intervals_from_gtis(gtis, chunk_length, time) ==
    LET nbin == chunk_length \div (time[2] - time[1])
        r == spectrum_start_bins(gtis, chunk_length, time, 1,
                                 [err |-> "none", bins |-> <<>>, from |-> <<>>])
    IN  IF r.err # "none"
        THEN [err |-> r.err, start |-> <<>>, stop |-> <<>>, from |-> <<>>]
        ELSE IF Len(r.bins) = 0
        THEN [err |-> "AssertionError", start |-> <<>>, stop |-> <<>>, from |-> <<>>]
        ELSE [err |-> "none", start |-> r.bins,
              stop |-> [k \in 1..Len(r.bins) |-> r.bins[k] + nbin], from |-> r.from]

\* ------------------------------------------------------------ rebin_data

\* sum(y[a:b]) for indices counted from 0, the slice cut at the end of y
RECURSIVE SumSlice(_, _, _)
SumSlice(y, a, b) ==
    IF a >= b \/ a >= Len(y) THEN 0 ELSE y[a + 1] + SumSlice(y, a + 1, b)

\* One pass of the loop of rebin_data, with every bin summed up to the start
\* of the bin after the next
rebin_total_overlapping(y, nx, num, den, m) ==
    den * SumSlice(y, (m * num) \div den, ((m + 1) * num) \div den + 1)

\* One pass of the loop of rebin_data, for i = m * step_size with step_size
\* the fraction num / den: the total of the new bin, times den. The old bin
\* i falls in counts by the part of it after i, the old bin i + step_size
\* falls in by the part of it before i + step_size, the bins between count
\* whole.
rebin_total(y, nx, num, den, m) ==
    LET int_i == (m * num) \div den
        prev_frac == (int_i + 1) * den - m * num
        next_i == (m + 1) * num
        next_part == IF next_i < nx * den
                     THEN (next_i % den) * y[(next_i \div den) + 1]
                     ELSE 0
    IN  prev_frac * y[int_i + 1] + next_part
        + den * SumSlice(y, (m * num + den) \div den, next_i \div den)

\* rebin_data(x, y, dx_new, method), np_float telling whether the numpy of
\* the build still defines np.float: [err, xbin, ybin, den, step_num,
\* step_den], the new bins being ybin[j] / den and step_size being
\* step_num / step_den
rebin_data(x, y, dx_new, method, np_float) ==
    LET dx_old == x[2] - x[1]
        failed(e) == [err |-> e, xbin |-> <<>>, ybin |-> <<>>, den |-> 1,
                      step_num |-> dx_new, step_den |-> dx_old]
        \* np.arange(0, y.shape[0], step_size): m * step_size < len(y)
        npass == IF Len(y) = 0 THEN 0 ELSE ((Len(y) * dx_old - 1) \div dx_new) + 1
        output == [k \in 1..npass |-> rebin_total(y, Len(x), dx_new, dx_old, k - 1)]
        tseg == x[Len(x)] - x[1] + dx_old
        kept == IF tseg % dx_new > 0 /\ npass > 0 THEN npass - 1 ELSE npass
    IN  IF dx_new < dx_old THEN failed("AssertionError")
        ELSE IF method \in {"mean", "avg", "average", "arithmetic mean"} /\ ~np_float
        THEN failed("AttributeError")
        ELSE IF method \notin {"mean", "avg", "average", "arithmetic mean", "sum"}
        THEN failed("UnrecognizedMethod")
        ELSE [err |-> "none",
              xbin |-> [j \in 1..kept |-> (j - 1) * dx_new + x[1] - dx_old + dx_new],
              ybin |-> [j \in 1..kept |-> output[j]],
              den |-> IF method = "sum" THEN dx_old ELSE dx_new,
              step_num |-> dx_new, step_den |-> dx_old]

\* ------------------------------------------------------- astropy tables

\* str.lower() of an attribute name: "PI" is the one name of the model with
\* upper-case letters
lower(name) == IF name = "PI" THEN "pi" ELSE name

\* self.get_meta_dict(): the meta attributes that are not None, with the
\* objects they reference
get_meta_dict(o, h) ==
    LET keys == SelectSeq(meta_attrs(o, h), LAMBDA n : o[n] # None)
    IN  [keys |-> keys, val |-> [n \in Range(keys) |-> o[n]]]

\* objs[i].to_astropy_table(): the array attributes as columns (copies of
\* the arrays), the meta dictionary as meta
to_astropy_table(st, i) ==
    LET o == st.objs[i]
        names == array_attrs(o, st.heap)
    IN  [colnames |-> names,
         cols |-> [n \in Range(names) |-> Val(st.heap, o[n])],
         meta |-> get_meta_dict(o, st.heap)]

\* len(ts): the number of rows
TableLen(ts) == IF Len(ts.colnames) = 0 THEN 0 ELSE ALen(ts.cols[ts.colnames[1]])

\* the loop of from_astropy_table over the columns, from the k-th on
RECURSIVE SetColumns(_, _, _, _)
SetColumns(st, j, ts, k) ==
    IF k > Len(ts.colnames) THEN st
    ELSE SetColumns(IF ts.colnames[k] = "time" THEN st
                    ELSE SetNewArr(st, j, lower(ts.colnames[k]), ts.cols[ts.colnames[k]]),
                    j, ts, k + 1)

\* the loop of from_astropy_table over ts.meta, from the k-th key on
RECURSIVE SetMeta(_, _, _, _)
SetMeta(st, j, ts, k) ==
    IF k > Len(ts.meta.keys) THEN st
    ELSE SetMeta(SetAttr(st, j, lower(ts.meta.keys[k]), ts.meta.val[ts.meta.keys[k]]),
                 j, ts, k + 1)

\* StingrayTimeseries.from_astropy_table(ts): [st, err, new]
from_astropy_table(st, ts) ==
    LET j == Len(st.objs) + 1
        s0 == [st EXCEPT !.objs = Append(st.objs, DefaultObj)]
    IN  IF TableLen(ts) = 0 THEN [st |-> s0, err |-> "none", new |-> j]
        ELSE IF "time" \notin Range(ts.colnames)
        THEN [st |-> s0, err |-> "KeyError", new |-> j]
        ELSE [st |-> SetMeta(SetColumns(SetNewArr(s0, j, "time", ts.cols["time"]),
                                        j, ts, 1),
                             j, ts, 1),
              err |-> "none", new |-> j]

\* ------------------------------------------ complex columns in files

\* A complex number is <<re, im>>. A column of a table is [name, cplx, v]:
\* name is the column name cut at its dots ("a.real" is <<"a", "real">>),
\* cplx tells whether the dtype is complex, v holds the values. A table is
\* the sequence of its columns; a real column has im = 0 throughout.
Col(name, cplx, v) == [name |-> name, cplx |-> cplx, v |-> v]
colnames(ts) == [k \in 1..Len(ts) |-> ts[k].name]
HasCol(ts, name) == \E k \in 1..Len(ts) : ts[k].name = name
GetCol(ts, name) == ts[CHOOSE k \in 1..Len(ts) : ts[k].name = name]

\* ts[name] = column: in the place of the column of that name, or at the end
SetCol(ts, name, cplx, v) ==
    IF HasCol(ts, name)
    THEN [k \in 1..Len(ts) |-> IF ts[k].name = name THEN Col(name, cplx, v) ELSE ts[k]]
    ELSE Append(ts, Col(name, cplx, v))

\* ts.remove_column(name)
remove_column(ts, name) == SelectSeq(ts, LAMBDA c : c.name # name)

\* f"{col}.real", f"{col}.imag", col.endswith(".real"), col.endswith(".imag")
Suffixed(name, part) == Append(name, part)
endswith(name, part) == Len(name) > 1 /\ name[Len(name)] = part
\* col.replace(".real", "").replace(".imag", "")
col_strip(name) ==
    <<name[1]>> \o SelectSeq(Tail(name), LAMBDA part : part \notin {"real", "imag"})

\* np.iscomplex(ts[col][0]): the first value has an imaginary part
iscomplex_first(c) == c.v[1][2] # 0

\* the loop of write over the column names `names`, from the k-th on:
\* [err, ts]
RECURSIVE SplitColumns(_, _, _)
SplitColumns(ts, names, k) ==
    IF k > Len(names) THEN [err |-> "none", ts |-> ts]
    ELSE LET c == GetCol(ts, names[k])
         IN  IF Len(c.v) = 0 THEN [err |-> "IndexError", ts |-> ts]
             ELSE IF iscomplex_first(c)
             THEN SplitColumns(
                      remove_column(
                          SetCol(SetCol(ts, Suffixed(c.name, "real"), FALSE,
                                        [j \in 1..Len(c.v) |-> <<c.v[j][1], 0>>]),
                                 Suffixed(c.name, "imag"), FALSE,
                                 [j \in 1..Len(c.v) |-> <<c.v[j][2], 0>>]),
                          c.name),
                      names, k + 1)
             ELSE SplitColumns(ts, names, k + 1)

FmtNone == "None"
\* the format is None or holds "ascii" ("ascii" itself stands for ascii.ecsv)
AsciiLike(fmt) == fmt \in {FmtNone, "ascii", "ascii.ecsv"}

\* write(filename, fmt) from the table ts that to_astropy_table gave:
\* [err, pickled, file], file the table handed to the writer of the format
write(ts, fmt) ==
    IF fmt = "pickle" THEN [err |-> "none", pickled |-> TRUE, file |-> <<>>]
    ELSE IF AsciiLike(fmt)
    THEN LET r == SplitColumns(ts, colnames(ts), 1)
         IN  [err |-> r.err, pickled |-> FALSE, file |-> r.ts]
    ELSE [err |-> "none", pickled |-> FALSE, file |-> ts]

\* new_value * 1j
TimesI(v) == [j \in 1..Len(v) |-> <<0 - v[j][2], v[j][1]>>]
\* a + b, element by element
AddCplx(a, b) == [j \in 1..Len(a) |-> <<a[j][1] + b[j][1], a[j][2] + b[j][2]>>]

\* the loop of read over the column names `names`, from the k-th on:
\* [err, ts]. is_imag is "unbound", "True" or "False": it is assigned only
\* when the name does not end in ".real", and keeps its value otherwise.
RECURSIVE MergeColumns(_, _, _, _)
MergeColumns(ts, names, k, is_imag) ==
    IF k > Len(names) THEN [err |-> "none", ts |-> ts]
    ELSE LET col == names[k]
             is_real == endswith(col, "real")
             now_imag == IF is_real THEN is_imag
                         ELSE IF endswith(col, "imag") THEN "True" ELSE "False"
         IN  IF ~is_real /\ now_imag = "False"
             THEN MergeColumns(ts, names, k + 1, now_imag)
             ELSE IF now_imag = "unbound"
             THEN [err |-> "UnboundLocalError", ts |-> ts]
             ELSE LET c == GetCol(ts, col)
                      new_value == IF now_imag = "True" THEN TimesI(c.v) ELSE c.v
                      strip == col_strip(col)
                  IN  IF ~HasCol(ts, strip)
                      THEN MergeColumns(
                               remove_column(SetCol(ts, strip, TRUE, new_value), col),
                               names, k + 1, now_imag)
                      ELSE IF ~GetCol(ts, strip).cplx
                      THEN [err |-> "TypeError", ts |-> ts]
                      ELSE MergeColumns(
                               remove_column(
                                   SetCol(ts, strip, TRUE,
                                          AddCplx(GetCol(ts, strip).v, new_value)),
                                   col),
                               names, k + 1, now_imag)

\* read(filename, fmt) from the table `file` that Table.read gave: [err,
\* pickled, ts], ts the table handed to from_astropy_table
read(file, fmt) ==
    IF fmt = "pickle" THEN [err |-> "none", pickled |-> TRUE, ts |-> <<>>]
    ELSE IF AsciiLike(fmt)
    THEN LET r == MergeColumns(file, colnames(file), 1, "unbound")
         IN  [err |-> r.err, pickled |-> FALSE, ts |-> r.ts]
    ELSE [err |-> "none", pickled |-> FALSE, ts |-> file]

\* ---------------------------------------------------------------- inputs

NoTime == [kind |-> "none"]
ListTime(n) == TimeIn("list", [k \in 1..n |-> k - 1], FALSE, 1)
TimeInputs == {NoTime} \cup {ListTime(n) : n \in 0..MaxLen}

Base(name) == IF name = "counts" THEN 10 ELSE 20
Vec(name, n) == Arr1([k \in 1..n |-> Base(name) + k - 1])
Mat(name, r, c) ==
    Arr2([i \in 1..r |-> [j \in 1..c |-> Base(name) + (i - 1) * c + j - 1]], c)
ArrayInputs(name) ==
    {Vec(name, n) : n \in 0..MaxLen}
    \cup (IF name = "counts"
          THEN {Mat(name, rc[1], rc[2]) :
                   rc \in {x \in (1..MaxLen) \X (1..MaxLen) : x[1] * x[2] <= MaxLen}}
          ELSE {})
\* the array_attrs dictionaries
ArrayAttrInputs ==
    UNION {{f \in [S -> UNION {ArrayInputs(n) : n \in S}] :
               \A n \in S : f[n] \in ArrayInputs(n)} : S \in SUBSET UserAttrs}

Gti(rows) == Arr2(rows, 2)
GtiA == Gti(<< <<0, 2>>, <<2, 4>> >>)
GtiB == Gti(<< <<0, 1>>, <<1, 4>> >>)
MjdrefInputs == {0, 1}

\* the filtered_attrs arguments: None, lists of user attributes, and a list
\* with a name the object does not have
FilterInputs ==
    {NoFilter}
    \cup {Filter(l) : l \in {<<>>, <<"counts">>, <<"weights">>, <<"weights", "counts">>,
                             <<"counts", "bogus">>}}

\* the time array of an object, <<>> when it has none
TimeOf(o, h) == IF o["time"].t = "ref" THEN Val(h, o["time"]).v ELSE <<>>
\* every mask of the length of time, and one that is too long
MaskInputs(o, h) ==
    [1..Len(TimeOf(o, h)) -> BOOLEAN] \cup {[k \in 1..(Len(TimeOf(o, h)) + 1) |-> TRUE]}

\* what the caller holds after a call on objs[i] of state st that returned the
\* objects st.objs[k], k in ret: the object and what was returned
Held(st, i, ret) == Collect(St(<<st.objs[i]>> \o [k \in 1..Len(ret) |-> st.objs[ret[k]]],
                               st.heap))

\* --------------------------------------------------------------- actions

Init ==
    /\ objs = <<>>
    /\ heap = <<>>
    /\ last = [op |-> "init", err |-> "none", ok |-> TRUE]
    /\ nops = 0

Construct ==
    /\ last.op = "init"
    /\ \E time \in TimeInputs, aa \in ArrayAttrInputs, mjdref \in MjdrefInputs,
          gti \in {None, GtiA} :
          LET r == NewTimeseries(time, aa, mjdref, gti, "nustar")
              st == IF r.err = "none" THEN Collect(r.st) ELSE St(<<>>, <<>>)
          IN  /\ objs' = st.objs
              /\ heap' = st.heap
              /\ last' = [op |-> "construct", err |-> r.err, ok |-> r.err = "none",
                          time |-> time,
                          array_attrs |-> aa, mjdref |-> mjdref, gti |-> gti]
    /\ nops' = nops

\* the caller is ready to call a method of the time series it holds
Ready == last.op \in {"construct", "keep"} /\ last.err = "none" /\ nops < MaxOps

ApplyMask ==
    /\ Ready
    /\ \E inplace \in BOOLEAN, fa \in FilterInputs, mask \in MaskInputs(objs[1], heap) :
          LET r == apply_mask(St(objs, heap), 1, mask, inplace, fa)
              st == Held(r.st, 1, IF r.err = "none" /\ ~inplace THEN <<r.new>> ELSE <<>>)
          IN  /\ objs' = st.objs
              /\ heap' = st.heap
              /\ last' = [op |-> "apply_mask", err |-> r.err,
                          ok |-> last.ok /\ r.err = "none",
                          ret |-> IF r.err # "none" THEN <<>>
                                  ELSE IF inplace THEN <<1>> ELSE <<2>>,
                          pre |-> View(objs[1], heap),
                          pre_arrays |-> array_attrs(objs[1], heap),
                          pre_meta |-> meta_attrs(objs[1], heap),
                          mask |-> mask, inplace |-> inplace, filtered_attrs |-> fa]
    /\ nops' = nops + 1

CopyOps == {"split_by_gti", "shift", "change_mjdref"}

ShiftInputs == {0 - 7, 7}

Shift ==
    /\ Ready
    /\ \E time_shift \in ShiftInputs :
          LET r == shift(St(objs, heap), 1, time_shift)
              st == Held(r.st, 1, IF r.err = "none" THEN <<r.new>> ELSE <<>>)
          IN  /\ objs' = st.objs
              /\ heap' = st.heap
              /\ last' = [op |-> "shift", err |-> r.err,
                          ok |-> last.ok /\ r.err = "none",
                          ret |-> IF r.err = "none" THEN <<2>> ELSE <<>>,
                          pre |-> View(objs[1], heap), time_shift |-> time_shift]
    /\ nops' = nops + 1

ChangeMjdref ==
    /\ Ready
    /\ \E new_mjdref \in MjdrefInputs :
          LET r == change_mjdref(St(objs, heap), 1, new_mjdref)
              st == Held(r.st, 1, IF r.err = "none" THEN <<r.new>> ELSE <<>>)
          IN  /\ objs' = st.objs
              /\ heap' = st.heap
              /\ last' = [op |-> "change_mjdref", err |-> r.err,
                          ok |-> last.ok /\ r.err = "none",
                          ret |-> IF r.err = "none" THEN <<2>> ELSE <<>>,
                          pre |-> View(objs[1], heap), new_mjdref |-> new_mjdref]
    /\ nops' = nops + 1

MinPointsInputs == {1, 2}

SplitByGti ==
    /\ Ready
    /\ \E gti \in {None, GtiB}, min_points \in MinPointsInputs :
          LET r == split_by_gti(St(objs, heap), 1, gti, min_points)
              st == Held(r.st, 1, IF r.err = "none" THEN r.ret ELSE <<>>)
          IN  /\ objs' = st.objs
              /\ heap' = st.heap
              /\ last' = [op |-> "split_by_gti", err |-> r.err,
                          ok |-> last.ok /\ r.err = "none",
                          ret |-> IF r.err = "none"
                                  THEN [k \in 1..Len(r.ret) |-> k + 1] ELSE <<>>,
                          pre |-> View(objs[1], heap),
                          pre_arrays |-> array_attrs(objs[1], heap),
                          gti |-> gti, min_points |-> min_points]
    /\ nops' = nops + 1

\* the first element of a replaced by x, in place
Poke(a, x) ==
    IF a.t = "arr1" THEN Arr1([a.v EXCEPT ![1] = x])
    ELSE Arr2([a.rows EXCEPT ![1][1] = x], a.cols)

\* The caller writes into an array of a time series that the last call
\* returned: objs[i].attr[0] = -1.
Mutate ==
    /\ \/ last.op \in CopyOps
       \/ last.op = "apply_mask" /\ ~last.inplace
    /\ last.err = "none"
    /\ \E i \in 2..Len(objs) : \E n \in DOMAIN objs[i] :
          /\ objs[i][n].t = "ref"
          /\ Size(heap[objs[i][n].r]) > 0
          /\ heap' = [heap EXCEPT ![objs[i][n].r] = Poke(@, 0 - 1)]
          /\ last' = [op |-> "mutate", err |-> "none", ok |-> last.ok,
                      obj |-> i, attr |-> n,
                      call |-> last.op,
                      pre |-> [k \in 1..Len(objs) |-> View(objs[k], heap)]]
    /\ UNCHANGED <<objs, nops>>

\* The caller goes on with one of the time series it holds (the one the call
\* was made on, or one the call returned) and drops the others.
Keep ==
    /\ last.op \notin {"init", "construct", "keep", "mutate"}
    /\ \E i \in 1..Len(objs) :
          LET st == Collect(St(<<objs[i]>>, heap))
          IN  /\ objs' = st.objs
              /\ heap' = st.heap
    /\ last' = [op |-> "keep", err |-> "none", ok |-> last.ok]
    /\ nops' = nops

Next == Construct \/ ApplyMask \/ SplitByGti \/ Shift \/ ChangeMjdref \/ Mutate \/ Keep

Spec == Init /\ [][Next]_vars

\* ---------------------------------------- the calls of interpret_times

\* sequences of at most MaxLen values of S
SeqsOf(S) == UNION {[1..n -> S] : n \in 0..MaxLen}
\* MJDs around the threshold and MJDs of real dates, each with the epochs
\* that keep the seconds within 32-bit integers
ThresholdMjds == {10000, 10001}
DateMjds == {57483, 57484}
SecondsInputs == {3, 4}
EpochInputs == {0, 45000}
\* astropy Time objects, 0-d or 1-d, with an epoch
TimeCalls ==
    ({TimeIn("Time", v, FALSE, 1) : v \in SeqsOf(ThresholdMjds)}
         \cup {TimeIn("Time", <<m>>, TRUE, 1) : m \in ThresholdMjds}) \X {0, 9000}
    \cup ({TimeIn("Time", v, FALSE, 1) : v \in SeqsOf(DateMjds)}
              \cup {TimeIn("Time", <<m>>, TRUE, 1) : m \in DateMjds}) \X EpochInputs
\* TimeDelta and Quantity objects, 0-d or 1-d, plain sequences, numbers and
\* a string, with an epoch
OtherCalls ==
    ({TimeIn(kd[1], v, FALSE, kd[2]) :
             kd \in {"TimeDelta", "Quantity"} \X {1, SecPerDay},
             v \in SeqsOf(SecondsInputs)}
     \cup {TimeIn(kd[1], <<x>>, TRUE, kd[2]) :
             kd \in {"TimeDelta", "Quantity"} \X {1, SecPerDay},
             x \in SecondsInputs}
     \cup {TimeIn(kd, v, FALSE, 1) :
             kd \in {"tuple", "list", "ndarray"}, v \in SeqsOf(SecondsInputs)}
     \cup {TimeIn("number", <<x>>, TRUE, 1) : x \in SecondsInputs}
     \cup {TimeIn("str", <<>>, TRUE, 1)}) \X EpochInputs
InterpretCalls == TimeCalls \cup OtherCalls

\* interpret_times(time, mjdref) called on its own
InterpretTimes ==
    /\ last.op = "init"
    /\ \E call \in InterpretCalls :
          LET time == call[1]
              mjdref == call[2]
              r == interpret_times(time, mjdref)
          IN  last' = [op |-> "interpret_times", err |-> r.err, ok |-> r.err = "none",
                       time |-> time, mjdref |-> mjdref,
                       out |-> r.out, scalar |-> r.scalar, ret_mjdref |-> r.mjdref]
    /\ UNCHANGED <<objs, heap, nops>>

NextInterp == InterpretTimes

SpecInterp == Init /\ [][NextInterp]_vars

\* ------------------------------- the calls of time_intervals_from_gtis

\* one interval, well-formed or not, and the lists of at most two of them
GtiRows == (0..MaxT) \X (0..MaxT)
GtiListInputs ==
    {<<>>} \cup {<<g>> : g \in GtiRows} \cup {<<g, h>> : g, h \in GtiRows}

\* time_intervals_from_gtis(gtis, chunk_length) called on its own
TimeIntervals ==
    /\ last.op = "init"
    /\ \E gtis \in GtiListInputs, chunk_length \in 1..MaxChunk :
          LET r == time_intervals_from_gtis(gtis, chunk_length)
          IN  last' = [op |-> "time_intervals_from_gtis", err |-> r.err,
                       ok |-> r.err = "none", gtis |-> gtis,
                       chunk_length |-> chunk_length,
                       start |-> r.start, stop |-> r.stop]
    /\ UNCHANGED <<objs, heap, nops>>

NextChunks == TimeIntervals

SpecChunks == Init /\ [][NextChunks]_vars

\* -------------------------------- the calls of bin_intervals_from_gtis

\* the centres of n bins of width bintime, the first bin starting at 0
Grid(n, bintime) == [k \in 1..n |-> bintime \div 2 + (k - 1) * bintime]
BinWidths == {2, 4}
\* lists of one or two intervals with start < stop, sorted and not
\* overlapping, with boundaries between 0 and hi
SortedGtis(hi) ==
    {<<g>> : g \in {x \in (0..hi) \X (0..hi) : x[1] < x[2]}}
    \cup {<< <<q[1], q[2]>>, <<q[3], q[4]>> >> :
             q \in {x \in (0..hi) \X (0..hi) \X (0..hi) \X (0..hi) :
                       x[1] < x[2] /\ x[2] <= x[3] /\ x[3] < x[4]}}
\* chunk lengths below the bin width, a multiple of it or not
ChunkInputs(bintime) ==
    {bintime \div 2, bintime, bintime + bintime \div 2, 2 * bintime}

\* bin_intervals_from_gtis(gtis, chunk_length, time) called on its own, next
\* to time_intervals_from_gtis(gtis, chunk_length)
BinIntervals ==
    /\ last.op = "init"
    /\ \E n \in 2..MaxBins, bintime \in BinWidths :
          \E gtis \in SortedGtis(n * bintime), chunk_length \in ChunkInputs(bintime) :
              LET time == Grid(n, bintime)
                  r == bin_intervals_from_gtis(gtis, chunk_length, time)
                  t == time_intervals_from_gtis(gtis, chunk_length)
              IN  last' = [op |-> "bin_intervals_from_gtis", err |-> r.err,
                           ok |-> r.err = "none", gtis |-> gtis,
                           chunk_length |-> chunk_length, time |-> time,
                           start |-> r.start, stop |-> r.stop, from |-> r.from,
                           times |-> t]
    /\ UNCHANGED <<objs, heap, nops>>

NextBins == BinIntervals

SpecBins == Init /\ [][NextBins]_vars

\* ------------------------------------------------- the calls of rebin_data

\* the samples y of a series, and its uniform grid x of n points dx apart
SampleInputs == {1, 3}
Uniform(n, dx) == [k \in 1..n |-> (k - 1) * dx]
OldWidths == {1, 2}
MethodInputs == {"sum", "mean", "median"}

\* rebin_data(x, y, dx_new, method) called on its own
RebinData ==
    /\ last.op = "init"
    /\ \E n \in 2..MaxSamples, dx_old \in OldWidths, method \in MethodInputs,
          np_float \in BOOLEAN :
          \E y \in [1..n -> SampleInputs], dx_new \in 1..(3 * dx_old) :
              LET x == Uniform(n, dx_old)
                  r == rebin_data(x, y, dx_new, method, np_float)
              IN  last' = [op |-> "rebin_data", err |-> r.err, ok |-> r.err = "none",
                           x |-> x, y |-> y, dx_new |-> dx_new, method |-> method,
                           np_float |-> np_float,
                           xbin |-> r.xbin, ybin |-> r.ybin, den |-> r.den]
    /\ UNCHANGED <<objs, heap, nops>>

NextRebin == RebinData

SpecRebin == Init /\ [][NextRebin]_vars

\* --------------------------------------- the round trip through a table

\* the array_attrs dictionaries with the keys "counts" and "PI"
TableAttrs == {"counts", "PI"}
TableAttrInputs ==
    UNION {[S -> {Vec("counts", n) : n \in 0..MaxLen}] : S \in SUBSET TableAttrs}

\* StingrayTimeseries(time, array_attrs, mjdref, gti), to be turned into a
\* table
TableConstruct ==
    /\ last.op = "init"
    /\ \E time \in TimeInputs, aa \in TableAttrInputs, mjdref \in MjdrefInputs,
          gti \in {None, GtiA} :
          LET r == NewTimeseries(time, aa, mjdref, gti, "nustar")
              st == IF r.err = "none" THEN Collect(r.st) ELSE St(<<>>, <<>>)
          IN  /\ objs' = st.objs
              /\ heap' = st.heap
              /\ last' = [op |-> "construct", err |-> r.err, ok |-> r.err = "none",
                          time |-> time,
                          array_attrs |-> aa, mjdref |-> mjdref, gti |-> gti]
    /\ nops' = nops

\* StingrayTimeseries.from_astropy_table(objs[1].to_astropy_table())
TableRoundTrip ==
    /\ Ready
    /\ LET ts == to_astropy_table(St(objs, heap), 1)
           r == from_astropy_table(St(objs, heap), ts)
       IN  /\ objs' = r.st.objs
           /\ heap' = r.st.heap
           /\ last' = [op |-> "table_round_trip", err |-> r.err,
                       ok |-> last.ok /\ r.err = "none",
                       ret |-> <<r.new>>, table |-> ts,
                       pre |-> View(objs[1], heap),
                       pre_arrays |-> array_attrs(objs[1], heap),
                       pre_meta |-> meta_attrs(objs[1], heap)]
    /\ nops' = nops + 1

NextTable == TableConstruct \/ TableRoundTrip

SpecTable == Init /\ [][NextTable]_vars

\* ------------------------------------------------- the calls of write, read

\* the sequences without repetition of the elements of S
RECURSIVE Orders(_)
Orders(S) ==
    IF S = {} THEN {<<>>}
    ELSE UNION {{<<x>> \o p : p \in Orders(S \ {x})} : x \in S}

ComplexInputs == {<<1, 0>>, <<0, 2>>, <<3, 4>>}
\* the tables to_astropy_table can give: the real column "time" and complex
\* columns among "a" and "b", in any order, of n rows
WriteTables(n) ==
    UNION {UNION {{[k \in 1..Len(p) |->
                       IF p[k] = "time"
                       THEN Col(<<"time">>, FALSE, [j \in 1..n |-> <<j - 1, 0>>])
                       ELSE Col(<<p[k]>>, TRUE, val[p[k]])] :
                     val \in [S -> [1..n -> ComplexInputs]]} :
                  p \in Orders(S \cup {"time"})} :
           S \in SUBSET {"a", "b"}}
FmtInputs == {FmtNone, "ascii", "hdf5", "pickle"}

\* write(filename, fmt) of an object whose table is ts
Write ==
    /\ last.op = "init"
    /\ \E n \in 0..MaxLen, fmt \in FmtInputs :
          \E ts \in WriteTables(n) :
              LET r == write(ts, fmt)
              IN  last' = [op |-> "write", err |-> r.err, ok |-> r.err = "none",
                           fmt |-> fmt, table |-> ts, pickled |-> r.pickled,
                           file |-> r.file]
    /\ UNCHANGED <<objs, heap, nops>>

\* read(filename, fmt) of the file the last call wrote
ReadBack ==
    /\ last.op = "write"
    /\ last.err = "none"
    /\ LET r == read(last.file, last.fmt)
       IN  last' = [op |-> "read", err |-> r.err, ok |-> r.err = "none",
                    fmt |-> last.fmt, written |-> TRUE, table |-> last.table,
                    file |-> last.file, pickled |-> r.pickled, ts |-> r.ts]
    /\ UNCHANGED <<objs, heap, nops>>

\* the files of one row with real columns among "time", "a", "a.real" and
\* "a.imag", in any order
HalfFiles ==
    UNION {UNION {{[k \in 1..Len(p) |-> Col(p[k], FALSE, <<val[p[k]]>>)] :
                     val \in [S -> {<<1, 0>>, <<2, 0>>}]} :
                  p \in Orders(S)} :
           S \in SUBSET {<<"time">>, <<"a">>, <<"a", "real">>, <<"a", "imag">>}}

\* read(filename, fmt) of a file written by other means
ReadFile ==
    /\ last.op = "init"
    /\ \E file \in HalfFiles, fmt \in {FmtNone, "ascii"} :
          LET r == read(file, fmt)
          IN  last' = [op |-> "read", err |-> r.err, ok |-> r.err = "none",
                       fmt |-> fmt, written |-> FALSE, table |-> <<>>,
                       file |-> file, pickled |-> r.pickled, ts |-> r.ts]
    /\ UNCHANGED <<objs, heap, nops>>

NextFiles == Write \/ ReadBack \/ ReadFile

SpecFiles == Init /\ [][NextFiles]_vars

\* ------------------------------------------------------- reading a state

\* the k-th object the last call returned, as its caller sees it
Result(k) == View(objs[last.ret[k]], heap)
\* the arrays an object references
RefsOf(o) == {o[n].r : n \in {m \in DOMAIN o : o[m].t = "ref"}}
\* no two objects the caller holds reference the same ndarray
NoSharedArrays ==
    \A i, j \in 1..Len(objs) : i # j => RefsOf(objs[i]) \cap RefsOf(objs[j]) = {}
\* the last call was one of the calls that return new objects
IsCopyCall == last.op \in CopyOps \/ (last.op = "apply_mask" /\ ~last.inplace)
AllTrue(mask) == \A k \in 1..Len(mask) : mask[k]
\* the seconds a shift or change_mjdref call moved the time series by
Offset ==
    IF last.op = "shift" THEN last.time_shift
    ELSE (last.pre["mjdref"].i - last.new_mjdref) * SecPerDay

\* ------------------------------------------------------------------ claims

(* C1: every array given in array_attrs that is still set on a time series
   has the length of its time array, after construction and after any
   successful apply_mask, split_by_gti, shift and change_mjdref. *)
C1_LengthInvariant ==
    \A i \in 1..Len(objs) :
        (last.ok /\ objs[i]["time"].t = "ref") =>
            \A n \in UserAttrs \cap DOMAIN objs[i] :
                objs[i][n].t = "ref" =>
                    ALen(heap[objs[i][n].r]) = ALen(heap[objs[i]["time"].r])

\* an array of array_attrs has not the length of time, or there is no time
LengthMismatch(time, aa) ==
    \E n \in DOMAIN aa : time.kind = "none" \/ ALen(aa[n]) # Len(time.v)

(* C2: construction raises ValueError, and nothing else, whenever an array
   of array_attrs has a length other than that of time, also when time is
   None and array_attrs is not empty. *)
C2_MismatchRaisesValueError ==
    (last.op = "construct" /\ LengthMismatch(last.time, last.array_attrs))
        => last.err = "ValueError"

(* C3: apply_mask(inplace=False), split_by_gti, shift and change_mjdref leave
   every attribute of the object they are called on as it was, the objects
   they return share no array with it or with each other, and writing into
   an array of a returned object changes no other object. *)
C3_CopyCallsArePure ==
    /\ IsCopyCall => (View(objs[1], heap) = last.pre /\ NoSharedArrays)
    /\ last.op = "mutate" =>
          \A k \in 1..Len(objs) : k # last.obj => View(objs[k], heap) = last.pre[k]

C3_Witness ==
    /\ last.op = "mutate"
    /\ last.call = "split_by_gti"
    /\ Len(objs) = 3
    /\ last.attr = "counts"

(* C4: apply_mask with an all-True mask of the length of time and no
   filtered_attrs, in place or not, returns an object with the same array
   attributes, the same value of each, and the same value of every meta
   attribute as the object had before the call. *)
C4_AllTrueMaskIsIdentity ==
    (/\ last.op = "apply_mask"
     /\ ~last.filtered_attrs.given
     /\ last.pre["time"].t = "arr1"
     /\ Len(last.mask) = Len(last.pre["time"].v)
     /\ AllTrue(last.mask))
    => /\ last.err = "none"
       /\ array_attrs(objs[last.ret[1]], heap) = last.pre_arrays
       /\ meta_attrs(objs[last.ret[1]], heap) = last.pre_meta
       /\ \A n \in Range(last.pre_arrays) \cup Range(last.pre_meta) :
              Result(1)[n] = last.pre[n]

C4_Witness ==
    /\ last.op = "apply_mask"
    /\ ~last.filtered_attrs.given
    /\ ~last.inplace
    /\ last.pre["time"].t = "arr1"
    /\ Len(last.mask) = 2
    /\ Len(last.pre["time"].v) = 2
    /\ AllTrue(last.mask)
    /\ last.pre_arrays = <<"counts", "time", "weights">>
    /\ last.pre["gti"].t = "arr2"
    /\ last.err = "none"

\* the names apply_mask keeps: filtered_attrs and "time", or every array attribute
KeptAttrs ==
    IF last.filtered_attrs.given THEN Range(last.filtered_attrs.names) \cup {"time"}
    ELSE Range(last.pre_arrays)

(* C5: after apply_mask(mask, filtered_attrs=L) with L a list of array
   attributes, in place or not, on a time series that no earlier call left
   with an exception, the array attributes of the result are L
   and "time", each the original restricted to the True positions of mask,
   and every other array attribute of the original is absent or None; with
   filtered_attrs=None every array attribute is kept and masked. *)
C5_FilteredAttrsKept ==
    (/\ last.op = "apply_mask"
     /\ last.ok
     /\ KeptAttrs \subseteq Range(last.pre_arrays))
    => /\ Range(array_attrs(objs[last.ret[1]], heap)) = KeptAttrs
       /\ \A n \in KeptAttrs : Result(1)[n] = Masked(last.pre[n], last.mask)
       /\ \A n \in Range(last.pre_arrays) \ KeptAttrs :
              n \notin DOMAIN Result(1) \/ Result(1)[n] = None

C5_Witness ==
    /\ last.op = "apply_mask"
    /\ last.err = "none"
    /\ last.inplace
    /\ last.filtered_attrs = Filter(<<"counts">>)
    /\ last.pre_arrays = <<"counts", "time", "weights">>
    /\ last.mask = <<FALSE, TRUE>>

\* the intervals split_by_gti worked on, and those holding min_points samples
SplitGti == IF last.gti.t = "none" THEN last.pre["gti"].rows ELSE last.gti.rows
Inside(time, g) == {k \in 1..Len(time) : InGti(time[k], g)}
LongEnough ==
    SelectSeq([r \in 1..Len(SplitGti) |-> r],
              LAMBDA r : Cardinality(Inside(last.pre["time"].v, SplitGti[r]))
                             >= last.min_points)

\* the example of the specification: intervals [0,5] and [10,12] over the
\* times 0,1,2,3,4,10,11 with min_points 2
ExampleSplit ==
    LET ts == NewTimeseries(TimeIn("list", <<0, 1, 2, 3, 4, 10, 11>>, FALSE, 1),
                            <<>>, 0, None, "nustar").st
        r == split_by_gti(ts, 1, Gti(<< <<0, 5>>, <<10, 12>> >>), 2)
    IN  /\ r.err = "none"
        /\ Len(r.ret) = 2
        /\ Val(r.st.heap, r.st.objs[r.ret[1]]["time"]) = Arr1(<<0, 1, 2, 3, 4>>)
        /\ Val(r.st.heap, r.st.objs[r.ret[2]]["time"]) = Arr1(<<10, 11>>)

(* C6: split_by_gti(gti, min_points) returns, in the order of the intervals,
   one time series for every interval that holds at least min_points
   samples; it holds the samples of time and of every array attribute
   inside that interval, and its gti is that interval alone. Intervals
   [0,5], [10,12] over times 0,1,2,3,4,10,11 with min_points 2 give a
   segment of 5 samples and one of 2. *)
C6_SplitByGti ==
    /\ (last.op = "split_by_gti" /\ last.err = "none") =>
          /\ Len(last.ret) = Len(LongEnough)
          /\ \A k \in 1..Len(last.ret) :
                LET g == SplitGti[LongEnough[k]]
                    mask == [j \in 1..Len(last.pre["time"].v) |->
                                InGti(last.pre["time"].v[j], g)]
                IN  /\ Result(k)["gti"] = Arr2(<<g>>, 2)
                    /\ \A n \in Range(last.pre_arrays) :
                          Result(k)[n] = Masked(last.pre[n], mask)
    /\ ExampleSplit

C6_Witness ==
    /\ last.op = "split_by_gti"
    /\ last.err = "none"
    /\ last.min_points = 2
    /\ Len(SplitGti) = 2
    /\ Len(last.ret) = 1
    /\ "counts" \in Range(last.pre_arrays)

(* C7: on a time series made without GTIs, shift (and so change_mjdref)
   returns a series whose time is the original plus the offset and whose
   gti is still unset. *)
C7_ShiftWithoutGti ==
    (/\ last.op \in {"shift", "change_mjdref"}
     /\ last.pre["time"].t = "arr1"
     /\ last.pre["gti"].t = "none")
    => /\ last.err = "none"
       /\ Result(1)["time"] = AddArr(last.pre["time"], Offset)
       /\ Result(1)["gti"] = None

(* C8: change_mjdref(new) returns a series with mjdref = new whose times and
   GTI boundaries are the original ones plus (old mjdref - new) * 86400, and
   change_mjdref(old) on it gives back the original time, gti and mjdref. *)
C8_ChangeMjdref ==
    (last.op = "change_mjdref" /\ last.pre["time"].t = "arr1")
    => /\ last.err = "none"
       /\ Result(1)["mjdref"] = IntV(last.new_mjdref)
       /\ Result(1)["time"] = AddArr(last.pre["time"], Offset)
       /\ last.pre["gti"].t = "arr2" => Result(1)["gti"] = AddArr(last.pre["gti"], Offset)
       /\ LET back == change_mjdref(St(objs, heap), last.ret[1], last.pre["mjdref"].i)
              o == View(back.st.objs[back.new], back.st.heap)
          IN  /\ back.err = "none"
              /\ o["time"] = last.pre["time"]
              /\ o["gti"] = last.pre["gti"]
              /\ o["mjdref"] = last.pre["mjdref"]

\* the values of a time input as interpret_times returned them
Seconds(f(_)) == [k \in 1..Len(last.time.v) |-> f(last.time.v[k])]

(* C9: interpret_times on an astropy Time of at least one value: with epoch
   0 and every MJD above 10000 it returns the first MJD as the epoch and
   (mjd - first MJD) * 86400 as the seconds, so the first one is 0, and MJD
   57483 gives (0, 57483); with a non-zero epoch it returns that epoch and
   (mjd - epoch) * 86400. On a TimeDelta or a Quantity it returns the epoch
   it was given and the values in seconds; on a tuple, list, ndarray or
   number it returns the epoch and the input as they were given. *)
C9_InterpretTimes ==
    last.op = "interpret_times" =>
        /\ (/\ last.time.kind = "Time"
            /\ Len(last.time.v) > 0
            /\ last.mjdref = 0
            /\ \A k \in 1..Len(last.time.v) : last.time.v[k] > 10000)
           => /\ last.err = "none"
              /\ last.ret_mjdref = last.time.v[1]
              /\ last.out = Seconds(LAMBDA mjd : (mjd - last.time.v[1]) * 86400)
              /\ last.out[1] = 0
        /\ (last.time.kind = "Time" /\ last.time.v = <<57483>> /\ last.mjdref = 0)
           => (last.out = <<0>> /\ last.ret_mjdref = 57483)
        /\ (last.time.kind = "Time" /\ last.mjdref # 0)
           => /\ last.err = "none"
              /\ last.ret_mjdref = last.mjdref
              /\ last.out = Seconds(LAMBDA mjd : (mjd - last.mjdref) * 86400)
        /\ last.time.kind \in {"TimeDelta", "Quantity"}
           => /\ last.err = "none"
              /\ last.ret_mjdref = last.mjdref
              /\ last.out = Seconds(LAMBDA x : x * last.time.unit)
        /\ last.time.kind \in {"tuple", "list", "ndarray", "number"}
           => /\ last.err = "none"
              /\ last.ret_mjdref = last.mjdref
              /\ last.out = last.time.v
        /\ last.err = "none" => last.scalar = last.time.scalar

C9_Witness ==
    /\ last.op = "interpret_times"
    /\ last.time = TimeIn("Time", <<57484, 57483>>, FALSE, 1)
    /\ last.mjdref = 0
    /\ last.ret_mjdref = 57484
    /\ last.out = <<0, 0 - 86400>>

\* chunk m of the result is a chunk of the interval g: as long as
\* chunk_length, k chunk lengths after the start of g, and inside g
ChunkOf(m, g) ==
    /\ last.stop[m] - last.start[m] = last.chunk_length
    /\ \E k \in 0..MaxT : last.start[m] = g[1] + k * last.chunk_length
    /\ g[1] <= last.start[m]
    /\ last.stop[m] <= g[2]
    /\ g[2] - g[1] >= last.chunk_length

\* the chunks from the m-th on come from the intervals from the r-th on, in
\* the order of the intervals
RECURSIVE InGtiOrder(_, _)
InGtiOrder(m, r) ==
    IF r > Len(last.gtis) THEN m > Len(last.start)
    ELSE \E p \in m..(Len(last.start) + 1) :
            /\ \A q \in m..(p - 1) : ChunkOf(q, last.gtis[r])
            /\ \A q \in m..(p - 2) : last.stop[q] <= last.start[q + 1]
            /\ InGtiOrder(p, r + 1)

\* intervals with start < stop, sorted and not overlapping
WellFormedGtis ==
    /\ \A r \in 1..Len(last.gtis) : last.gtis[r][1] < last.gtis[r][2]
    /\ \A r \in 1..(Len(last.gtis) - 1) : last.gtis[r][2] <= last.gtis[r + 1][1]

(* C10: every chunk time_intervals_from_gtis returns is chunk_length long,
   starts a whole number of chunk lengths after the start of an interval of
   the input that is at least chunk_length long, and lies inside that
   interval; the chunks come in the order of the intervals, the chunks of
   one interval do not overlap, and over well-formed intervals no two chunks
   overlap. *)
C10_ChunksInsideGtis ==
    (last.op = "time_intervals_from_gtis" /\ last.err = "none")
    => /\ Len(last.stop) = Len(last.start)
       /\ InGtiOrder(1, 1)
       /\ WellFormedGtis
          => \A m \in 1..(Len(last.start) - 1) : last.stop[m] <= last.start[m + 1]

C10_Witness ==
    /\ last.op = "time_intervals_from_gtis"
    /\ last.gtis = << <<0, 3>>, <<3, 5>> >>
    /\ last.chunk_length = 1
    /\ last.start = <<0, 1, 3>>
    /\ last.stop = <<1, 2, 4>>

\* an interval of the input is at least chunk_length long
SomeGtiLongEnough ==
    \E r \in 1..Len(last.gtis) : last.gtis[r][2] - last.gtis[r][1] >= last.chunk_length

(* C11: time_intervals_from_gtis raises exactly when no interval is equal to
   or longer than chunk_length; with an interval at least chunk_length long,
   one exactly chunk_length long included, it returns at least one chunk. *)
C11_RaisesExactlyWhenNoGtiFits ==
    last.op = "time_intervals_from_gtis"
    => /\ ~SomeGtiLongEnough => last.err # "none"
       /\ SomeGtiLongEnough => (last.err = "none" /\ Len(last.start) > 0)

\* the bin width and half of it, of the time grid of the last call
BinTime == last.time[2] - last.time[1]
HalfBin == BinTime \div 2

(* C12: every index pair (start, stop) bin_intervals_from_gtis returns for a
   uniform grid of bin centres has 0 <= start < stop <= len(time) and
   stop - start = floor(chunk_length / dt), and its bins lie inside the
   interval [g0, g1] it came from: g0 <= time[start] - dt/2 and
   time[stop-1] + dt/2 <= g1, wherever the boundaries of the interval are. *)
C12_BinsInsideGti ==
    (last.op = "bin_intervals_from_gtis" /\ last.err = "none")
    => \A m \in 1..Len(last.start) :
          LET g == last.gtis[last.from[m]]
          IN  /\ 0 <= last.start[m]
              /\ last.start[m] < last.stop[m]
              /\ last.stop[m] <= Len(last.time)
              /\ last.stop[m] - last.start[m] = last.chunk_length \div BinTime
              /\ g[1] <= At(last.time, last.start[m]) - HalfBin
              /\ At(last.time, last.stop[m] - 1) + HalfBin <= g[2]

\* the intervals of the last call have their boundaries on bin edges, and
\* chunk_length is a whole number of bins
OnBinEdges ==
    /\ \A r \in 1..Len(last.gtis) :
          last.gtis[r][1] % BinTime = 0 /\ last.gtis[r][2] % BinTime = 0
    /\ last.chunk_length % BinTime = 0

(* C13: for a uniform grid of bin centres, intervals with boundaries on bin
   edges and chunk_length a whole number of bins, bin_intervals_from_gtis
   and time_intervals_from_gtis give the same number of chunks (for one
   interval alone and for a list of them, none at all included), and the
   i-th index pair is the i-th time chunk: time[start] - dt/2 is its start
   and time[stop-1] + dt/2 its stop. *)
C13_BinsAreTimeChunks ==
    (last.op = "bin_intervals_from_gtis" /\ OnBinEdges)
    => /\ Len(last.start) = Len(last.times.start)
       /\ last.err = "none" <=> last.times.err = "none"
       /\ \A m \in 1..Len(last.start) :
             /\ At(last.time, last.start[m]) - HalfBin = last.times.start[m]
             /\ At(last.time, last.stop[m] - 1) + HalfBin = last.times.stop[m]

\* y[a] + ... + y[b], indices counted from 1
RECURSIVE SumOf(_, _, _)
SumOf(y, a, b) == IF a > b THEN 0 ELSE y[a] + SumOf(y, a + 1, b)

(* C14: rebin_data(x, y, dx_new, method='sum') on a uniform series of n
   points, dx_new being k times the old bin width, returns floor(n / k)
   bins, bin j (from 0) being y[j*k] + ... + y[j*k + k - 1]: a trailing
   group of fewer than k samples is dropped and no sample counts twice. *)
C14_RebinSumsWholeGroups ==
    (/\ last.op = "rebin_data"
     /\ last.method = "sum"
     /\ last.dx_new % (last.x[2] - last.x[1]) = 0)
    => LET k == last.dx_new \div (last.x[2] - last.x[1])
           n == Len(last.y)
       IN  /\ last.err = "none"
           /\ Len(last.ybin) = n \div k
           /\ \A j \in 0..((n \div k) - 1) :
                  last.ybin[j + 1] = last.den * SumOf(last.y, j * k + 1, j * k + k)

C14_Witness ==
    /\ last.op = "rebin_data"
    /\ last.method = "sum"
    /\ last.x = <<0, 1, 2>>
    /\ last.y = <<1, 3, 3>>
    /\ last.dx_new = 2
    /\ last.ybin = <<4>>
    /\ last.den = 1

(* C15: from_astropy_table(to_astropy_table(ts)) of a time series, one with
   time unset or with upper-case attribute names included, has the time of
   ts, the array attributes of ts under the same names with the same
   values, and every meta attribute of ts that is not None under the same
   name with the same value. *)
C15_TableRoundTrip ==
    last.op = "table_round_trip"
    => /\ last.err = "none"
       /\ Result(1)["time"] = last.pre["time"]
       /\ array_attrs(objs[last.ret[1]], heap) = last.pre_arrays
       /\ \A n \in Range(last.pre_arrays) : Result(1)[n] = last.pre[n]
       /\ \A n \in Range(last.pre_meta) :
              last.pre[n] # None => (n \in DOMAIN Result(1) /\ Result(1)[n] = last.pre[n])

\* the real and the imaginary parts of the values of a column
RealPart(v) == [j \in 1..Len(v) |-> <<v[j][1], 0>>]
ImagPart(v) == [j \in 1..Len(v) |-> <<v[j][2], 0>>]

(* C16: write with fmt None or an ASCII-like format, of a table with at
   least one row, hands to the writer a table without any complex column: in the place of every complex column
   there are the two real columns <name>.real and <name>.imag with its real
   and its imaginary parts, whatever the values of the column are. *)
C16_ComplexColumnsSplit ==
    (/\ last.op = "write"
     /\ AsciiLike(last.fmt)
     /\ \A k \in 1..Len(last.table) : Len(last.table[k].v) > 0)
    => /\ last.err = "none"
       /\ \A k \in 1..Len(last.file) : ~last.file[k].cplx
       /\ \A k \in 1..Len(last.table) :
             LET c == last.table[k]
             IN  IF c.cplx
                 THEN /\ ~HasCol(last.file, c.name)
                      /\ HasCol(last.file, Suffixed(c.name, "real"))
                      /\ HasCol(last.file, Suffixed(c.name, "imag"))
                      /\ GetCol(last.file, Suffixed(c.name, "real")).v = RealPart(c.v)
                      /\ GetCol(last.file, Suffixed(c.name, "imag")).v = ImagPart(c.v)
                 ELSE HasCol(last.file, c.name) /\ GetCol(last.file, c.name) = c

\* a column name with a ".real" or an ".imag" in it
IsHalf(name) == \E k \in 2..Len(name) : name[k] \in {"real", "imag"}

(* C17: a table with complex columns, in any order, written with fmt None
   or an ASCII-like format and read back has for every column one column
   of that name with the original values and no .real or .imag column; a
   file with only the .real or only the .imag half of a name is read as
   that half, the other half being zero. *)
C17_SplitMergeRoundTrip ==
    (last.op = "read" /\ AsciiLike(last.fmt))
    => /\ last.err = "none"
       /\ \A k \in 1..Len(last.ts) : ~IsHalf(last.ts[k].name)
       /\ last.written
          => \A k \in 1..Len(last.table) :
                /\ HasCol(last.ts, last.table[k].name)
                /\ GetCol(last.ts, last.table[k].name).v = last.table[k].v
       /\ (/\ ~last.written
           /\ ~HasCol(last.file, <<"a">>)
           /\ HasCol(last.file, <<"a", "real">>) # HasCol(last.file, <<"a", "imag">>))
          => /\ HasCol(last.ts, <<"a">>)
             /\ GetCol(last.ts, <<"a">>).v =
                    IF HasCol(last.file, <<"a", "real">>)
                    THEN GetCol(last.file, <<"a", "real">>).v
                    ELSE TimesI(GetCol(last.file, <<"a", "imag">>).v)

\* --------------------------------------------------- failure leaves no trace

(* C18: when an in-place apply_mask raises (mask of the wrong length, or
   filtered_attrs naming an attribute the object does not have), every
   attribute of the object has the value it had before the call: none was
   set to None and none was masked. *)
C18_NoPartialStateOnFailure ==
    (/\ last.op = "apply_mask"
     /\ last.inplace
     /\ last.err # "none")
    => View(objs[1], heap) = last.pre

\* ----------------------------------------------------- the sample counter

\* ncounts of an object that has a time array is the number of its samples
CountsItsSamples(o, h) ==
    Val(h, o["time"]).t = "arr1"
    => /\ "ncounts" \in DOMAIN o
       /\ o["ncounts"] = IntV(Len(Val(h, o["time"]).v))

(* C19: in every state reached from a time series constructed with a time
   array by apply_mask (in place or not), split_by_gti, shift and
   change_mjdref, ncounts of the object and of every returned object equals
   the number of elements of its time array. *)
C19_NcountsIsTimeSize ==
    \A k \in 1..Len(objs) : CountsItsSamples(objs[k], heap)

====
